---- MODULE Spec2Model ----
(***************************************************************************)
(* A model of twin-query: the typed column store (data.rs), the CSV ingest *)
(* (insert.rs), the query planner (plan.rs) and the staged, within-stage    *)
(* parallel executor (exec.rs).                                             *)
(***************************************************************************)
EXTENDS Integers, Sequences, FiniteSets, TLC

VARIABLES
    db,        \* the Db the queries run against (immutable during queries)
    query,     \* the parsed query lines (output of grammar::query)
    plan,      \* [state, staged, fused, stages]: Plan under construction / built
    pc,        \* position of the driver thread (repl loop + exec + exec_stage)
    stageIdx,  \* index (1-based) of the stage exec is working on
    tasks,     \* status of every spawned task, keyed by <<stage index, node>>
    chan,      \* the mpsc channel of exec_stage: messages sent, not yet received
    results,   \* exec_stage's `results` vector handed to exec's inner loop
    cache,     \* Cache.map : ColumnName -> set of ids (the overlay)
    merged,    \* the <<stage index, node>> whose message exec has consumed
    result,    \* exec's `result` vector of (ColumnName, entries)
    outcome,   \* how exec ended: "none" | "Ok" | "Err" | "panic"
    failed,    \* the errors find_entries returned so far (set)
    prev,      \* result set of the previous run of the same query (repl loop)
    runs,      \* number of completed runs of the query
    build,     \* how the binary was built: overflow checks, crossbeam's scope
    pf         \* scratch record of the pure-function specifications

vars == <<db, query, plan, pc, stageIdx, tasks, chan, results, cache, merged,
          result, outcome, failed, prev, runs, build, pf>>

(***************************************************************************)
(* Bounds of the model.                                                    *)
(***************************************************************************)
\* usize is modelled UsizeBits wide; every number in the model fits.
UsizeBits == 4
\* how many times the repl runs the same query
MaxRuns == 2
\* the longest list of query lines the planner specification draws
MaxLines == 3
\* the longest stage list handed to is_valid directly
MaxStages == 2
\* how many datums add_datum calls put into a db, ingests aside
MaxDatums == 2
\* ids Db::next_id issues in one run of the id counter
MaxIds == 2
\* datums of the column optimize_columns is run on, on its own
MaxColLen == 8
\* calls of Cache::insert_or_merge in one run of the cache on its own
MaxInserts == 3

UsizeMax == 2 ^ UsizeBits - 1

\* Option<usize>::None
NoneV == -1

(***************************************************************************)
(* data.rs : Value, with the derived PartialEq / PartialOrd                *)
(***************************************************************************)
BoolV(b) == [tag |-> "Bool", n |-> IF b THEN 1 ELSE 0, s |-> ""]
IntV(i) == [tag |-> "Int", n |-> i, s |-> ""]
StringV(str) == [tag |-> "String", n |-> 0, s |-> str]

\* position of the variant in `enum Value { Bool, Int, String }`
VariantIndex(v) ==
    CASE v.tag = "Bool" -> 0
      [] v.tag = "Int" -> 1
      [] v.tag = "String" -> 2

\* the UTF-8 bytes of the strings the model uses
StrBytes(str) ==
    CASE str = "" -> <<>>
      [] str = "0" -> <<48>>
      [] str = "1" -> <<49>>
      [] str = "2" -> <<50>>
      [] str = "3" -> <<51>>
      [] str = "4" -> <<52>>
      [] str = "5" -> <<53>>
      [] str = "a" -> <<97>>
      [] str = "ab" -> <<97, 98>>
      [] str = "b" -> <<98>>
      [] str = "c" -> <<99>>
      [] str = "true" -> <<116, 114, 117, 101>>
      [] str = "false" -> <<102, 97, 108, 115, 101>>
      [] str = "x" -> <<120>>

RECURSIVE SeqCmp(_, _)
\* lexicographic comparison of byte strings (str::cmp): -1, 0 or 1
SeqCmp(a, b) ==
    IF a = <<>> /\ b = <<>> THEN 0
    ELSE IF a = <<>> THEN -1
    ELSE IF b = <<>> THEN 1
    ELSE IF Head(a) < Head(b) THEN -1
    ELSE IF Head(a) > Head(b) THEN 1
    ELSE SeqCmp(Tail(a), Tail(b))

IntCmp(a, b) == IF a < b THEN -1 ELSE IF a > b THEN 1 ELSE 0

\* #[derive(PartialOrd)] on the enum: the variants are ordered by their
\* position first, the payloads are compared only within one variant.
ValuePartialCmp(l, r) ==
    IF VariantIndex(l) # VariantIndex(r)
    THEN IntCmp(VariantIndex(l), VariantIndex(r))
    ELSE IF l.tag = "String" THEN SeqCmp(StrBytes(l.s), StrBytes(r.s))
    ELSE IntCmp(l.n, r.n)

\* #[derive(PartialEq)]
ValueEq(l, r) == l.tag = r.tag /\ l.n = r.n /\ l.s = r.s

(***************************************************************************)
(* plan.rs : Comparator, Predicate                                         *)
(***************************************************************************)
Comparators == {"Equal", "Greater", "GreaterOrEqual", "Less", "LessOrEqual"}

ComparatorTest(comp, left, right) ==
    CASE comp = "Equal" -> ValueEq(left, right)
      [] comp = "Greater" -> ValuePartialCmp(left, right) = 1
      [] comp = "GreaterOrEqual" -> ValuePartialCmp(left, right) \in {0, 1}
      [] comp = "Less" -> ValuePartialCmp(left, right) = -1
      [] comp = "LessOrEqual" -> ValuePartialCmp(left, right) \in {-1, 0}

Constant(comp, value) == [op |-> "Constant", comp |-> comp, value |-> value]
And(l, r) == [op |-> "And", left |-> l, right |-> r]
Or(l, r) == [op |-> "Or", left |-> l, right |-> r]

RECURSIVE PredicateTest(_, _)
PredicateTest(p, value) ==
    CASE p.op = "Constant" -> ComparatorTest(p.comp, value, p.value)
      [] p.op = "And" -> PredicateTest(p.left, value) /\ PredicateTest(p.right, value)
      [] p.op = "Or" -> PredicateTest(p.left, value) \/ PredicateTest(p.right, value)

(***************************************************************************)
(* data.rs : ColumnName, Datum, Column, Db                                 *)
(***************************************************************************)
ColumnName(table, column) == [table |-> table, column |-> column]

\* ColumnName::id
IdOf(name) == ColumnName(name.table, "id")

Datum(id, value, time) == [id |-> id, value |-> value, time |-> time]

\* Column::new
ColumnNew(name, t) == [name |-> name, type |-> t, data |-> <<>>, time_index |-> <<>>]

\* Db::new
DbNew == [cols |-> <<>>, ids |-> <<>>, entity_count |-> 0]

\* str::parse::<usize> on the cells the model uses
ParseUsize(raw) ==
    CASE raw = "0" -> [ok |-> TRUE, v |-> 0]
      [] raw = "1" -> [ok |-> TRUE, v |-> 1]
      [] raw = "2" -> [ok |-> TRUE, v |-> 2]
      [] raw = "3" -> [ok |-> TRUE, v |-> 3]
      [] raw = "4" -> [ok |-> TRUE, v |-> 4]
      [] raw = "5" -> [ok |-> TRUE, v |-> 5]
      [] OTHER -> [ok |-> FALSE, v |-> 0]

\* str::parse::<bool>
ParseBool(raw) ==
    CASE raw = "true" -> [ok |-> TRUE, v |-> TRUE]
      [] raw = "false" -> [ok |-> TRUE, v |-> FALSE]
      [] OTHER -> [ok |-> FALSE, v |-> FALSE]

\* add_datum that pushes a default value before it reports the parse error
ColumnAddDatumKeepsBad(col, id, raw, time) ==
    CASE col.type = "Bool" ->
            [ok |-> ParseBool(raw).ok, err |-> IF ParseBool(raw).ok THEN "none" ELSE "ParseError",
             col |-> [col EXCEPT !.data = Append(@, Datum(id, BoolV(ParseBool(raw).v), time))]]
      [] col.type = "Int" ->
            [ok |-> ParseUsize(raw).ok, err |-> IF ParseUsize(raw).ok THEN "none" ELSE "ParseError",
             col |-> [col EXCEPT !.data = Append(@, Datum(id, IntV(ParseUsize(raw).v), time))]]
      [] col.type = "String" ->
            [ok |-> TRUE, err |-> "none",
             col |-> [col EXCEPT !.data = Append(@, Datum(id, StringV(raw), time))]]

\* Column::add_datum: parse the raw text by the column's type and push
ColumnAddDatum(col, id, raw, time) ==
    CASE col.type = "Bool" ->
            IF ParseBool(raw).ok
            THEN [ok |-> TRUE, err |-> "none",
                  col |-> [col EXCEPT !.data = Append(@, Datum(id, BoolV(ParseBool(raw).v), time))]]
            ELSE [ok |-> FALSE, err |-> "ParseError", col |-> col]
      [] col.type = "Int" ->
            IF ParseUsize(raw).ok
            THEN [ok |-> TRUE, err |-> "none",
                  col |-> [col EXCEPT !.data = Append(@, Datum(id, IntV(ParseUsize(raw).v), time))]]
            ELSE [ok |-> FALSE, err |-> "ParseError", col |-> col]
      [] col.type = "String" ->
            [ok |-> TRUE, err |-> "none",
             col |-> [col EXCEPT !.data = Append(@, Datum(id, StringV(raw), time))]]

\* add_column without the lookup: HashMap::insert replaces the column
DbAddColumnReplace(d, name, t) ==
    [ok |-> name \notin DOMAIN d.cols,
     err |-> IF name \in DOMAIN d.cols THEN "NameAlreadyTake" ELSE "none",
     db |-> [d EXCEPT !.cols = (name :> ColumnNew(name, t)) @@ d.cols,
                      !.ids = (name.table :> {}) @@ d.ids]]

\* Db::add_column: Err(NameAlreadyTake) on a known name; otherwise the column
\* is inserted and ids[table] is (re)set to the empty set.
DbAddColumn(d, name, t) ==
    IF name \in DOMAIN d.cols
    THEN [ok |-> FALSE, err |-> "NameAlreadyTake", db |-> d]
    ELSE [ok |-> TRUE, err |-> "none",
          db |-> [d EXCEPT !.cols = (name :> ColumnNew(name, t)) @@ d.cols,
                           !.ids = (name.table :> {}) @@ d.ids]]

\* next_id that hands out the counter without advancing it
DbNextIdNoIncrement(d, table) ==
    IF table \notin DOMAIN d.ids THEN [ok |-> FALSE, id |-> 0, db |-> d]
    ELSE [ok |-> TRUE, id |-> d.entity_count,
          db |-> [d EXCEPT !.ids[table] = @ \cup {d.entity_count}]]

\* Db::next_id: panics (ok = FALSE) on an unknown table, before any change
DbNextId(d, table) ==
    IF table \notin DOMAIN d.ids THEN [ok |-> FALSE, id |-> 0, db |-> d]
    ELSE [ok |-> TRUE, id |-> d.entity_count,
          db |-> [d EXCEPT !.entity_count = @ + 1,
                           !.ids[table] = @ \cup {d.entity_count}]]

\* Db::add_datum
DbAddDatum(d, name, id, raw, time) ==
    IF name \notin DOMAIN d.cols
    THEN [ok |-> FALSE, err |-> "NameNotFound", db |-> d]
    ELSE LET r == ColumnAddDatum(d.cols[name], id, raw, time)
         IN  [ok |-> r.ok, err |-> r.err, db |-> [d EXCEPT !.cols[name] = r.col]]

RECURSIVE InsertByTime(_, _)
\* insert datum x after every datum whose time is <= x.time (stable)
InsertByTime(sorted, x) ==
    IF sorted = <<>> THEN <<x>>
    ELSE IF Head(sorted).time <= x.time
         THEN <<Head(sorted)>> \o InsertByTime(Tail(sorted), x)
         ELSE <<x>> \o sorted

RECURSIVE DataSort(_)
\* Data::sort : Vec::sort_by on the time, a stable sort
DataSort(data) ==
    IF data = <<>> THEN <<>>
    ELSE InsertByTime(DataSort(SubSeq(data, 1, Len(data) - 1)), data[Len(data)])

\* Column::index_by_time
IndexByTime(col) ==
    LET len == Len(col.data)
        increment == len \div 5
    IN  IF len < 5 THEN col
        ELSE [col EXCEPT !.time_index =
                 [i \in 1..5 |-> col.data[increment * (i - 1) + 1].time]]

\* optimize_columns without the sort
OptimizeColumnsNoSort(d) ==
    [d EXCEPT !.cols = [name \in DOMAIN d.cols |-> IndexByTime(d.cols[name])]]

\* Db::optimize_columns
OptimizeColumns(d) ==
    [d EXCEPT !.cols = [name \in DOMAIN d.cols |->
        IndexByTime([d.cols[name] EXCEPT !.data = DataSort(@)])]]

(***************************************************************************)
(* insert.rs : Schema, add_to_db                                           *)
(***************************************************************************)
\* RawSchema as decoded from the schema file
RawSchema(table, columns, csv_ordering) ==
    [table |-> table, columns |-> columns, csv_ordering |-> csv_ordering]

SeqToSet(q) == {q[i] : i \in DOMAIN q}

\* Schema::from_raw: inject id and time, validate the ordering
SchemaFromRaw(raw) ==
    LET columns == ("id" :> "Int") @@ ("time" :> "Int") @@ raw.columns
        ordering_set == SeqToSet(raw.csv_ordering)
        ok == /\ \A i \in DOMAIN raw.csv_ordering : raw.csv_ordering[i] \in DOMAIN columns
              /\ Len(raw.csv_ordering) = Cardinality(DOMAIN columns)
              /\ Len(raw.csv_ordering) = Cardinality(ordering_set)
              /\ "id" \in ordering_set
              /\ "time" \in ordering_set
    IN  [ok |-> ok,
         table |-> raw.table,
         columns |-> [c \in {ColumnName(raw.table, k) : k \in DOMAIN columns} |->
                         columns[c.column]],
         csv_ordering |-> [i \in DOMAIN raw.csv_ordering |->
                              ColumnName(raw.table, raw.csv_ordering[i])]]

\* Schema::column_index (1-based here)
ColumnIndex(schema, col) ==
    CHOOSE i \in DOMAIN schema.csv_ordering : schema.csv_ordering[i].column = col

RECURSIVE AddColumns(_, _, _)
\* the loop `for (column_name, column_type) in schema.columns`, each add_column
\* is `expect`ed: one failure panics the ingest
AddColumns(d, columns, todo) ==
    IF todo = {} THEN [ok |-> TRUE, db |-> d]
    ELSE LET name == CHOOSE n \in todo : TRUE
             r == DbAddColumn(d, name, columns[name])
         IN  IF r.ok THEN AddColumns(r.db, columns, todo \ {name})
             ELSE [ok |-> FALSE, db |-> d]

RECURSIVE AddRowCells(_, _, _, _, _, _)
\* the inner loop over schema.csv_ordering.iter().zip(row.iter())
AddRowCells(d, schema, row, id, time, i) ==
    IF i > Len(schema.csv_ordering) \/ i > Len(row) THEN [ok |-> TRUE, db |-> d]
    ELSE LET r == DbAddDatum(d, schema.csv_ordering[i], id, row[i], time)
         IN  IF r.ok THEN AddRowCells(r.db, schema, row, id, time, i + 1)
             ELSE [ok |-> FALSE, db |-> d]

RECURSIVE AddRows(_, _, _, _)
\* the loop over the CSV records
AddRows(d, schema, rows, k) ==
    IF k > Len(rows) THEN [ok |-> TRUE, db |-> d]
    ELSE LET row == rows[k]
             id_index == ColumnIndex(schema, "id")
             time_index == ColumnIndex(schema, "time")
         IN  IF id_index > Len(row) \/ time_index > Len(row)
                \/ ~ParseUsize(row[id_index]).ok \/ ~ParseUsize(row[time_index]).ok
             THEN [ok |-> FALSE, db |-> d]
             ELSE LET r == AddRowCells(d, schema, row, ParseUsize(row[id_index]).v,
                                       ParseUsize(row[time_index]).v, 1)
                  IN  IF r.ok THEN AddRows(r.db, schema, rows, k + 1)
                      ELSE [ok |-> FALSE, db |-> d]

\* add_to_db: ok = FALSE when the ingest panicked (nothing is written then)
AddToDb(d, raw_schema, rows) ==
    LET schema == SchemaFromRaw(raw_schema)
    IN  IF ~schema.ok THEN [ok |-> FALSE, db |-> d]
        ELSE LET c == AddColumns(d, schema.columns, DOMAIN schema.columns)
             IN  IF ~c.ok THEN [ok |-> FALSE, db |-> d]
                 ELSE LET r == AddRows(c.db, schema, rows, 1)
                      IN  IF ~r.ok THEN [ok |-> FALSE, db |-> d]
                          ELSE [ok |-> TRUE, db |-> OptimizeColumns(r.db)]

(***************************************************************************)
(* plan.rs : QueryLine, TimeBound, PlanNode, parse_line                    *)
(***************************************************************************)
SelectLine(cols) == [kind |-> "Select", cols |-> cols]
JoinLine(table, col) == [kind |-> "Join", table |-> table, right |-> col]
WhereLine(col, pred) == [kind |-> "Where", col |-> col, pred |-> pred]
LimitLine(size) == [kind |-> "Limit", size |-> size]

\* Option<TimeBound>: None, or Some(TimeBound { min, max }) with Option ends
NoBound == [some |-> FALSE, min |-> NoneV, max |-> NoneV]
SomeBound(min, max) == [some |-> TRUE, min |-> min, max |-> max]

Select(col, limit) == [kind |-> "Select", col |-> col, limit |-> limit]
Join(left, right) == [kind |-> "Join", left |-> left, right |-> right]
Where(col, pred, bound) == [kind |-> "Where", col |-> col, pred |-> pred, bound |-> bound]
WhereId(col, ids) == [kind |-> "WhereId", col |-> col, ids |-> ids]

\* PlanNode::table
NodeTable(node) == IF node.kind = "Join" THEN node.left.table ELSE node.col.table

\* all the orders a HashSet / HashMap iteration may list the set S in
Orders(S) ==
    {q \in [1..Cardinality(S) -> S] : \A i, j \in 1..Cardinality(S) : i # j => q[i] # q[j]}

\* usize subtraction `int_val - 1`: a build with overflow checks (debug)
\* panics on underflow, one without (release) wraps.
SubOne(i) ==
    IF i > 0 THEN {[ok |-> TRUE, v |-> i - 1]}
    ELSE IF build.overflow_checks THEN {[ok |-> FALSE, v |-> 0]}
    ELSE {[ok |-> TRUE, v |-> UsizeMax]}

\* TimeBound::combine
Combine(self, bound) ==
    [ok |-> TRUE,
     min |-> IF self.min # NoneV THEN self.min ELSE bound.min,
     max |-> IF self.max # NoneV THEN self.max ELSE bound.max]

BoundPanic == [ok |-> FALSE, min |-> NoneV, max |-> NoneV]

\* the Constant arm of TimeBound::from_predicate
FromConstant(p) ==
    IF p.value.tag # "Int" THEN {BoundPanic}
    ELSE LET i == p.value.n
         IN  CASE p.comp = "Equal" ->
                    {IF m.ok THEN [ok |-> TRUE, min |-> m.v, max |-> i] ELSE BoundPanic
                        : m \in SubOne(i)}
               [] p.comp = "Greater" -> {[ok |-> TRUE, min |-> i, max |-> NoneV]}
               [] p.comp = "GreaterOrEqual" ->
                    {IF m.ok THEN [ok |-> TRUE, min |-> m.v, max |-> NoneV] ELSE BoundPanic
                        : m \in SubOne(i)}
               [] p.comp = "Less" ->
                    {IF m.ok THEN [ok |-> TRUE, min |-> NoneV, max |-> m.v] ELSE BoundPanic
                        : m \in SubOne(i)}
               [] p.comp = "LessOrEqual" -> {[ok |-> TRUE, min |-> NoneV, max |-> i]}

\* from_predicate that answers an Or with the bound without ends
FromPredicateOrUnbounded(p) ==
    CASE p.op = "Constant" -> FromConstant(p)
      [] p.op = "And" -> {BoundPanic}
      [] p.op = "Or" -> {[ok |-> TRUE, min |-> NoneV, max |-> NoneV]}

RECURSIVE FromPredicate(_)
\* TimeBound::from_predicate: the set of outcomes, ok = FALSE is a panic
\* (non-integer constant, Or, or the debug build's underflow check)
FromPredicate(p) ==
    CASE p.op = "Constant" -> FromConstant(p)
      [] p.op = "And" ->
            {IF l.ok /\ r.ok THEN Combine(l, r) ELSE BoundPanic
                : l \in FromPredicate(p.left), r \in FromPredicate(p.right)}
      [] p.op = "Or" -> {BoundPanic}

RECURSIVE ExtractIds(_)
\* extract_ids: Some(ids) for a disjunction tree of `= Int(_)` leaves
ExtractIds(p) ==
    CASE p.op = "Constant" ->
            IF p.comp = "Equal" /\ p.value.tag = "Int"
            THEN [some |-> TRUE, ids |-> <<p.value.n>>]
            ELSE [some |-> FALSE, ids |-> <<>>]
      [] p.op = "Or" ->
            LET l == ExtractIds(p.left)
                r == ExtractIds(p.right)
            IN  IF l.some /\ r.some THEN [some |-> TRUE, ids |-> l.ids \o r.ids]
                ELSE [some |-> FALSE, ids |-> <<>>]
      [] OTHER -> [some |-> FALSE, ids |-> <<>>]

Triple(node, req, prov) == [node |-> node, req |-> req, prov |-> prov]

\* parse_line: the (PlanNode, Requires, Provides) triples of one query line;
\* an Option<ColumnName> is the empty set or a singleton
ParseLine(line, limit) ==
    CASE line.kind = "Select" ->
            [i \in DOMAIN line.cols |->
                Triple(Select(line.cols[i], limit), {IdOf(line.cols[i])}, {})]
      [] line.kind = "Where" ->
            LET left_id == IdOf(line.col)
                ext == ExtractIds(line.pred)
                node == IF line.col = left_id /\ ext.some
                        THEN WhereId(line.col, ext.ids)
                        ELSE Where(line.col, line.pred, NoBound)
            IN  <<Triple(node, {}, {left_id})>>
      [] line.kind = "Join" ->
            LET left_id == ColumnName(line.table, "id")
                right_id == IdOf(line.right)
            IN  <<Triple(Join(left_id, line.right), {left_id}, {right_id})>>
      [] line.kind = "Limit" -> <<>>

(***************************************************************************)
(* plan.rs : Plan::build_graph, Plan::build_stages                         *)
(***************************************************************************)
\* a fold that keeps the first Limit line instead of the last
FoldLimitFirst(lines, i, acc) ==
    LET at == {j \in i..Len(lines) : lines[j].kind = "Limit"}
    IN  IF at = {} THEN acc
        ELSE lines[CHOOSE j \in at : \A k \in at : j <= k].size

RECURSIVE FoldLimit(_, _, _)
\* lines.iter().fold(20, ...): the last Limit line wins
FoldLimit(lines, i, acc) ==
    IF i > Len(lines) THEN acc
    ELSE FoldLimit(lines, i + 1, IF lines[i].kind = "Limit" THEN lines[i].size ELSE acc)

DefaultLimit == 20

RECURSIVE FlatMapLines(_, _, _)
FlatMapLines(lines, i, limit) ==
    IF i > Len(lines) THEN <<>>
    ELSE ParseLine(lines[i], limit) \o FlatMapLines(lines, i + 1, limit)

\* Plan::build_graph: nodes in insertion order, an edge i -> j iff node i
\* requires what node j provides
BuildGraph(lines) ==
    LET limit == FoldLimit(lines, 1, DefaultLimit)
        triples == FlatMapLines(lines, 1, limit)
    IN  [nodes |-> [i \in DOMAIN triples |-> triples[i].node],
         edges |-> {e \in (DOMAIN triples) \X (DOMAIN triples) :
                       /\ triples[e[1]].req # {}
                       /\ triples[e[1]].req = triples[e[2]].prov}]

\* graph.externals(Incoming): the nodes without incoming edge, by index
Externals(g) ==
    LET S == {i \in DOMAIN g.nodes : ~\E j \in DOMAIN g.nodes : <<j, i>> \in g.edges}
    IN  [k \in 1..Cardinality(S) |->
            CHOOSE i \in S : Cardinality({j \in S : j < i}) = k - 1]

RECURSIVE DfsOrders(_, _, _)
\* petgraph's Dfs: pop a node, skip it when discovered, else mark it, push its
\* undiscovered successors and yield it.  The order in which a node's
\* neighbours are listed is left open.
DfsOrders(g, stack, discovered) ==
    IF stack = <<>> THEN {<<>>}
    ELSE LET node == stack[Len(stack)]
             rest == SubSeq(stack, 1, Len(stack) - 1)
         IN  IF node \in discovered THEN DfsOrders(g, rest, discovered)
             ELSE LET disc == discovered \cup {node}
                      succ == {j \in DOMAIN g.nodes : <<node, j>> \in g.edges /\ j \notin disc}
                  IN  UNION {{<<node>> \o o : o \in DfsOrders(g, rest \o push, disc)}
                                : push \in Orders(succ)}

\* Plan::find_stage_index: stages hold node values; 0-based index or -1
FindStageIndex(stages, node) ==
    IF \E i \in DOMAIN stages : node \in stages[i]
    THEN (CHOOSE i \in DOMAIN stages :
              node \in stages[i] /\ \A j \in DOMAIN stages : j < i => node \notin stages[j]) - 1
    ELSE -1

SetMax(S, default) == IF S = {} THEN default ELSE CHOOSE m \in S : \A x \in S : x <= m

\* the body of the `while let Some(node) = dfs.next(graph)` loop
PlaceNode(g, stages, node) ==
    LET provides == {j \in DOMAIN g.nodes : <<j, node>> \in g.edges}
        max_depth == SetMax({FindStageIndex(stages, g.nodes[j]) : j \in provides}, -1)
        stage_index == max_depth + 1
        grown == IF stage_index >= Len(stages) THEN Append(stages, {}) ELSE stages
    IN  [grown EXCEPT ![stage_index + 1] = @ \cup {g.nodes[node]}]

RECURSIVE PlaceOrder(_, _, _)
PlaceOrder(g, stages, order) ==
    IF order = <<>> THEN stages
    ELSE PlaceOrder(g, PlaceNode(g, stages, Head(order)), Tail(order))

RECURSIVE WalkExternals(_, _, _)
\* the loop over the externals: every walk starts a fresh Dfs
WalkExternals(g, exts, stagesSet) ==
    IF exts = <<>> THEN stagesSet
    ELSE WalkExternals(g, Tail(exts),
            {PlaceOrder(g, st, o) : st \in stagesSet, o \in DfsOrders(g, <<Head(exts)>>, {})})

Reverse(q) == [i \in DOMAIN q |-> q[Len(q) + 1 - i]]

\* build_stages without the final `stages.reverse()`
BuildStagesUnreversed(g) == WalkExternals(g, Externals(g), {<<>>})

\* Plan::build_stages: the stage lists the walks can produce
BuildStages(g) == {Reverse(st) : st \in WalkExternals(g, Externals(g), {<<>>})}

(***************************************************************************)
(* plan.rs : Plan::optimize, Plan::is_valid                                *)
(***************************************************************************)
RECURSIVE FoldAnd(_, _, _)
FoldAnd(order, i, acc) ==
    IF i > Len(order) THEN acc
    ELSE FoldAnd(order, i + 1, And(acc, order[i].pred))

\* Plan::group_nodes_into_and_predicate: the group in encounter order
GroupNodesIntoAndPredicate(order) ==
    Where(order[1].col, FoldAnd(order, 2, order[1].pred), NoBound)

RECURSIVE CombineGroups(_, _, _)
CombineGroups(newSet, stage, cols) ==
    IF cols = {} THEN newSet
    ELSE LET c == CHOOSE x \in cols : TRUE
             group == {n \in stage : n.kind = "Where" /\ n.col = c}
         IN  IF Cardinality(group) > 1
             THEN CombineGroups({(new \ group) \cup {GroupNodesIntoAndPredicate(o)} :
                                    new \in newSet, o \in Orders(group)},
                                stage, cols \ {c})
             ELSE CombineGroups(newSet, stage, cols \ {c})

\* Plan::combine_where_nodes_on_same_column: the stages it can return, one per
\* order in which the hash set lists the nodes of a group
CombineWhereNodesOnSameColumn(stage) ==
    CombineGroups({stage}, stage,
                  {n.col : n \in {m \in stage : m.kind = "Where"}})

\* Stage::find_where_time_nodes
FindWhereTimeNodes(stage) == {n \in stage : n.kind = "Where" /\ n.col.column = "time"}

RECURSIVE ApplyTimeNodes(_, _, _, _)
\* the loop `for time_node in time_nodes` of set_time_bounds_on_where_nodes
ApplyTimeNodes(stage, order, i, new) ==
    IF i > Len(order) THEN {[ok |-> TRUE, stage |-> new]}
    ELSE LET time_node == order[i]
             group == {n \in stage : n.kind = "Where" /\ NodeTable(n) = time_node.col.table}
         IN  UNION {
               IF ~b.ok THEN {[ok |-> FALSE, stage |-> new]}
               ELSE LET bound == SomeBound(b.min, b.max)
                        replaced ==
                          IF Cardinality(group) = 1
                          THEN (new \ {time_node})
                                 \cup {Where(time_node.col, time_node.pred, bound)}
                          ELSE (new \ group)
                                 \cup {Where(n.col, n.pred, bound) : n \in group \ {time_node}}
                    IN  ApplyTimeNodes(stage, order, i + 1, replaced)
               : b \in FromPredicate(time_node.pred)}

\* Plan::set_time_bounds_on_where_nodes: the outcomes, ok = FALSE is a panic
SetTimeBoundsOnWhereNodes(stage) ==
    UNION {ApplyTimeNodes(stage, o, 1, stage) : o \in Orders(FindWhereTimeNodes(stage))}

RECURSIVE OptimizeFrom(_, _)
\* Plan::optimize from stage i on: the outcomes [ok, fused, stages] where
\* fused lists the stages after pass 1 and stages after pass 2
OptimizeFrom(stages, i) ==
    IF i > Len(stages) THEN {[ok |-> TRUE, fused |-> <<>>, stages |-> <<>>]}
    ELSE UNION {
           UNION {
             IF ~t.ok THEN {[ok |-> FALSE, fused |-> <<>>, stages |-> <<>>]}
             ELSE {IF rest.ok
                   THEN [ok |-> TRUE, fused |-> <<f>> \o rest.fused,
                         stages |-> <<t.stage>> \o rest.stages]
                   ELSE rest : rest \in OptimizeFrom(stages, i + 1)}
             : t \in SetTimeBoundsOnWhereNodes(f)}
           : f \in CombineWhereNodesOnSameColumn(stages[i])}

Optimize(stages) == OptimizeFrom(stages, 1)

\* Plan::stage_query_types
StageQueryTypes(stage) ==
    {CASE n.kind = "Select" -> 1
       [] n.kind = "Join" -> 2
       [] n.kind = "Where" -> 3
       [] n.kind = "WhereId" -> 4 : n \in stage}

\* is_valid without the check of the stages before the last
IsValidLastOnly(stages) ==
    IF Len(stages) = 0 THEN "NoStages"
    ELSE IF \E i \in DOMAIN stages : stages[i] = {} THEN "EmptyStages"
    ELSE IF StageQueryTypes(stages[Len(stages)]) \cap {2, 3, 4} # {}
         THEN "InvalidStageOrder"
    ELSE "Ok"

\* Plan::is_valid
IsValid(stages) ==
    IF Len(stages) = 0 THEN "NoStages"
    ELSE IF \E i \in DOMAIN stages : stages[i] = {} THEN "EmptyStages"
    ELSE IF \E i \in DOMAIN stages :
              \/ i = Len(stages) /\ StageQueryTypes(stages[i]) \cap {2, 3, 4} # {}
              \/ i < Len(stages) /\ 1 \in StageQueryTypes(stages[i])
         THEN "InvalidStageOrder"
    ELSE "Ok"

(***************************************************************************)
(* exec.rs : Cache, find_entries                                           *)
(***************************************************************************)
NoError == [kind |-> "none", name |-> ColumnName("", "")]
MissingColumn(name) == [kind |-> "MissingColumn", name |-> name]
InvalidJoin(name) == [kind |-> "InvalidJoin", name |-> name]

\* Cache::get : the overlay entry, else the table's id set, else None
CacheGet(map, d, name) ==
    IF name \in DOMAIN map THEN [some |-> TRUE, eids |-> map[name]]
    ELSE IF name.table \in DOMAIN d.ids THEN [some |-> TRUE, eids |-> d.ids[name.table]]
    ELSE [some |-> FALSE, eids |-> {}]

\* a merge that stores the new set without intersecting
InsertOverwrite(map, name, eids) == (name :> eids) @@ map

\* a merge that joins the new set with the stored one
InsertUnion(map, name, eids) ==
    (name :> (IF name \in DOMAIN map THEN eids \cup map[name] ELSE eids)) @@ map

\* Cache::insert_or_merge
InsertOrMerge(map, name, eids) ==
    LET merged_set == IF name \in DOMAIN map THEN eids \cap map[name] ELSE eids
    IN  (name :> merged_set) @@ map

\* match_by_predicates
MatchByPredicates(entries, predicates) ==
    {entries[i].id : i \in {j \in DOMAIN entries : PredicateTest(predicates, entries[j].value)}}

\* match_by_eids
MatchByEids(entries, eids) ==
    {entries[i].id : i \in {j \in DOMAIN entries : entries[j].value.n \in eids}}

RECURSIVE FilterByEids(_, _)
FilterByEids(entries, eids) ==
    IF entries = <<>> THEN <<>>
    ELSE IF Head(entries).id \in eids
         THEN <<Head(entries)>> \o FilterByEids(Tail(entries), eids)
         ELSE FilterByEids(Tail(entries), eids)

\* take(limit) before the filter
CloneTakeThenFilter(entries, eids, limit) ==
    FilterByEids(SubSeq(entries, 1, IF limit < Len(entries) THEN limit ELSE Len(entries)),
                 eids)

\* clone_matching_entries / find_entries_by_set: filter, then take(limit)
CloneMatchingEntries(entries, eids, limit) ==
    LET kept == FilterByEids(entries, eids)
    IN  SubSeq(kept, 1, IF limit < Len(kept) THEN limit ELSE Len(kept))

\* TimeBound, "Open-closed interval: min < time <= max"
InBound(bound, time) ==
    \/ ~bound.some
    \/ /\ (bound.min = NoneV \/ bound.min < time)
       /\ (bound.max = NoneV \/ time <= bound.max)

RECURSIVE BoundFilter(_, _)
\* the part of a Where scan that keeps the datums whose time lies in the bound
BoundFilter(entries, bound) ==
    IF entries = <<>> THEN <<>>
    ELSE IF InBound(bound, Head(entries).time)
         THEN <<Head(entries)>> \o BoundFilter(Tail(entries), bound)
         ELSE BoundFilter(Tail(entries), bound)

Failure(err) ==
    [ok |-> FALSE, err |-> err, name |-> err.name, kind |-> "none",
     eids |-> {}, entries |-> <<>>]
FilteredEids(name, eids) ==
    [ok |-> TRUE, err |-> NoError, name |-> name, kind |-> "Eids",
     eids |-> eids, entries |-> <<>>]
FilteredEntries(name, entries) ==
    [ok |-> TRUE, err |-> NoError, name |-> name, kind |-> "Entries",
     eids |-> {}, entries |-> entries]

\* execution of a WhereId node: the listed ids that are in Cache.get(c)
FindEntriesWhereId(d, map, node) ==
    LET got == CacheGet(map, d, node.col)
    IN  IF ~got.some THEN Failure(MissingColumn(node.col))
        ELSE FilteredEids(node.col, SeqToSet(node.ids) \cap got.eids)

\* find_entries
FindEntries(d, map, node) ==
    CASE node.kind = "Select" ->
            LET name_eid == IdOf(node.col)
                got == CacheGet(map, d, name_eid)
            IN  IF ~got.some THEN Failure(MissingColumn(name_eid))
                ELSE IF node.col \notin DOMAIN d.cols THEN Failure(MissingColumn(node.col))
                ELSE FilteredEntries(node.col,
                        CloneMatchingEntries(d.cols[node.col].data, got.eids, node.limit))
      [] node.kind = "Join" ->
            LET got == CacheGet(map, d, node.left)
            IN  IF ~got.some THEN Failure(MissingColumn(node.left))
                ELSE IF node.right \notin DOMAIN d.cols THEN Failure(MissingColumn(node.right))
                ELSE IF d.cols[node.right].type = "Int"
                     THEN FilteredEids(IdOf(node.right),
                                       MatchByEids(d.cols[node.right].data, got.eids))
                     ELSE Failure(InvalidJoin(node.right))
      [] node.kind = "Where" ->
            IF node.col \notin DOMAIN d.cols THEN Failure(MissingColumn(node.col))
            ELSE FilteredEids(IdOf(node.col),
                    MatchByPredicates(BoundFilter(d.cols[node.col].data, node.bound),
                                      node.pred))
      [] node.kind = "WhereId" -> FindEntriesWhereId(d, map, node)

(***************************************************************************)
(* The inputs: databases written by add_to_db, parsed queries              *)
(***************************************************************************)
T(c) == ColumnName("t", c)
U(c) == ColumnName("u", c)

SchemaT == RawSchema("t", ("v" :> "Int") @@ ("k" :> "String"), <<"id", "time", "v", "k">>)
SchemaU == RawSchema("u", ("t_id" :> "Int"), <<"id", "time", "t_id">>)

\* CSV files of table t: one entity per row / an entity with two events
RowsT1 == <<<<"2", "1", "2", "b">>, <<"1", "0", "1", "a">>, <<"3", "2", "3", "c">>>>
RowsT2 == <<<<"1", "2", "5", "b">>, <<"1", "0", "1", "a">>, <<"2", "1", "2", "c">>>>
RowsU == <<<<"1", "0", "3">>, <<"2", "1", "1">>>>

\* `add` run twice on a fresh db file: table t, then table u
Ingested(rowsT) == AddToDb(AddToDb(DbNew, SchemaT, rowsT).db, SchemaU, RowsU).db

Databases == {Ingested(RowsT1), Ingested(RowsT2)}

Gt(i) == Constant("Greater", IntV(i))
Ge(i) == Constant("GreaterOrEqual", IntV(i))
Lt(i) == Constant("Less", IntV(i))
Eq(i) == Constant("Equal", IntV(i))

Queries ==
    { <<SelectLine(<<T("v")>>)>>,
      <<SelectLine(<<T("v")>>), LimitLine(1)>>,
      <<SelectLine(<<T("v")>>), WhereLine(T("v"), Gt(1))>>,
      <<SelectLine(<<T("v")>>), WhereLine(T("v"), Gt(1)), LimitLine(1)>>,
      <<SelectLine(<<T("k")>>), WhereLine(T("v"), Lt(3)),
        WhereLine(T("k"), Constant("Greater", StringV("a")))>>,
      <<SelectLine(<<T("v")>>), WhereLine(T("id"), Or(Eq(1), Eq(3)))>>,
      <<SelectLine(<<T("k")>>), JoinLine("u", T("v")), WhereLine(U("t_id"), Gt(1))>>,
      <<SelectLine(<<U("t_id")>>), JoinLine("u", T("v")), WhereLine(T("v"), Ge(2))>>,
      <<SelectLine(<<T("v")>>), WhereLine(T("v"), Lt(3)), WhereLine(T("v"), Gt(4))>>,
      <<SelectLine(<<T("v")>>), WhereLine(T("time"), Ge(1)), WhereLine(T("v"), Lt(3))>>,
      <<SelectLine(<<T("v")>>), WhereLine(T("time"), Ge(0)), WhereLine(T("v"), Lt(3))>>,
      <<SelectLine(<<T("v")>>), WhereLine(T("time"), Gt(0)), WhereLine(T("time"), Gt(1)),
        WhereLine(T("v"), Lt(5))>>,
      <<SelectLine(<<T("v")>>), WhereLine(T("time"), Or(Eq(1), Eq(2)))>>,
      <<SelectLine(<<T("v")>>), WhereLine(T("time"), Gt(0)),
        WhereLine(T("time"), And(Lt(3), Or(Eq(1), Eq(2))))>>,
      <<SelectLine(<<T("zz")>>)>>,
      <<SelectLine(<<T("v")>>), WhereLine(T("zz"), Gt(1)), WhereLine(T("v"), Gt(1))>>,
      <<SelectLine(<<T("v")>>), JoinLine("u", T("k"))>>,
      <<SelectLine(<<T("v")>>), WhereLine(T("v"), Constant("Greater", BoolV(TRUE)))>>,
      <<WhereLine(T("v"), Gt(1))>> }

Builds == [overflow_checks : BOOLEAN, scope_panics : BOOLEAN]

\* a query text grammar::query answers with Err(ParseError)
GrammarError == <<[kind |-> "ParseError"]>>

(***************************************************************************)
(* The query path: repl.rs start_repl, Plan::new, exec, exec_stage         *)
(***************************************************************************)
NoPlan == [state |-> "none", staged |-> <<>>, fused |-> <<>>, stages |-> <<>>]

Init ==
    /\ db \in Databases
    /\ query \in Queries \cup {GrammarError}
    /\ build \in Builds
    /\ plan = NoPlan
    /\ pc = "new"
    /\ stageIdx = 0
    /\ tasks = <<>>
    /\ chan = <<>>
    /\ results = <<>>
    /\ cache = <<>>
    /\ merged = {}
    /\ result = <<>>
    /\ outcome = "none"
    /\ failed = {}
    /\ prev = {}
    /\ runs = 0
    /\ pf = [op |-> "none"]

\* Plan::new: build_graph, build_stages, optimize.  A panic in optimize ends
\* the process.
PlanNew ==
    /\ pc = "new"
    /\ query # GrammarError
    /\ \E staged \in BuildStages(BuildGraph(query)) :
         \E o \in Optimize(staged) :
            IF o.ok
            THEN /\ plan' = [state |-> "optimized", staged |-> staged,
                             fused |-> o.fused, stages |-> o.stages]
                 /\ pc' = "built"
            ELSE /\ plan' = [state |-> "panicked", staged |-> staged,
                             fused |-> <<>>, stages |-> <<>>]
                 /\ pc' = "panicked"
    /\ UNCHANGED <<db, query, stageIdx, tasks, chan, results, cache, merged, result,
                   outcome, failed, prev, runs, build, pf>>

\* the repl's Err arm of grammar::query: the error is printed, no plan is
\* built and the loop goes on to the next query
ParseFail ==
    /\ pc = "new"
    /\ query = GrammarError
    /\ pc' = "rejected"
    /\ UNCHANGED <<db, query, plan, stageIdx, tasks, chan, results, cache, merged, result,
                   outcome, failed, prev, runs, build, pf>>

\* a repl that goes on to exec whatever is_valid answered
ValidateSkipped ==
    /\ pc = "built"
    /\ plan' = [plan EXCEPT !.state = "validated"]
    /\ pc' = "exec"
    /\ UNCHANGED <<db, query, stageIdx, tasks, chan, results, cache, merged, result,
                   outcome, failed, prev, runs, build, pf>>

\* the repl's `p.is_valid()`: an invalid plan is printed and dropped
Validate ==
    /\ pc = "built"
    /\ LET v == IsValid(plan.stages)
       IN  IF v = "Ok"
           THEN /\ plan' = [plan EXCEPT !.state = "validated"]
                /\ pc' = "exec"
           ELSE /\ plan' = [plan EXCEPT !.state = v]
                /\ pc' = "rejected"
    /\ UNCHANGED <<db, query, stageIdx, tasks, chan, results, cache, merged, result,
                   outcome, failed, prev, runs, build, pf>>

\* exec: Cache::new, the empty result, the first stage
ExecBegin ==
    /\ pc = "exec"
    /\ cache' = <<>>
    /\ result' = <<>>
    /\ stageIdx' = 1
    /\ pc' = "spawn"
    /\ UNCHANGED <<db, query, plan, tasks, chan, results, merged, outcome, failed,
                   prev, runs, build, pf>>

\* exec_stage: a fresh channel, one scoped thread per node of the stage
Spawn ==
    /\ pc = "spawn"
    /\ tasks' = [n \in {<<stageIdx, node>> : node \in plan.stages[stageIdx]} |-> "running"]
                   @@ tasks
    /\ chan' = <<>>
    /\ results' = <<>>
    /\ pc' = "scope"
    /\ UNCHANGED <<db, query, plan, stageIdx, cache, merged, result, outcome, failed,
                   prev, runs, build, pf>>

Msg(r, key) ==
    [name |-> r.name, kind |-> r.kind, eids |-> r.eids, entries |-> r.entries, from |-> key]

\* the closure of a spawned thread: find_entries(..).unwrap(), then send
TaskRun(key) ==
    /\ key \in DOMAIN tasks
    /\ tasks[key] = "running"
    /\ LET r == FindEntries(db, cache, key[2])
       IN  IF r.ok
           THEN /\ chan' = Append(chan, Msg(r, key))
                /\ tasks' = [tasks EXCEPT ![key] = "sent"]
                /\ failed' = failed
           ELSE /\ chan' = chan
                /\ tasks' = [tasks EXCEPT ![key] = "panicked"]
                /\ failed' = failed \cup {r.err}
    /\ UNCHANGED <<db, query, plan, pc, stageIdx, results, cache, merged, result,
                   outcome, prev, runs, build, pf>>

StageKeys == {<<stageIdx, node>> : node \in plan.stages[stageIdx]}

\* crossbeam::scope returns once every thread spawned in it has finished
ScopeJoined == \A key \in StageKeys : key \in DOMAIN tasks /\ tasks[key] # "running"

\* the scope ends; the panic of a child is not handed on by this build
ScopeExit ==
    /\ pc = "scope"
    /\ ScopeJoined
    /\ ~(build.scope_panics /\ \E key \in StageKeys : tasks[key] = "panicked")
    /\ pc' = "recv"
    /\ UNCHANGED <<db, query, plan, stageIdx, tasks, chan, results, cache, merged,
                   result, outcome, failed, prev, runs, build, pf>>

\* the scope ends; this build's scope panics when a child panicked
ScopePanic ==
    /\ pc = "scope"
    /\ ScopeJoined
    /\ build.scope_panics
    /\ \E key \in StageKeys : tasks[key] = "panicked"
    /\ pc' = "panicked"
    /\ outcome' = "panic"
    /\ UNCHANGED <<db, query, plan, stageIdx, tasks, chan, results, cache, merged,
                   result, failed, prev, runs, build, pf>>

\* a receive loop that stops one message short
RecvCountShort(stage) == Cardinality(stage) - 1

\* `for _ in 0..stage.len()`: how many messages exec_stage receives
RecvCount(stage) == Cardinality(stage)

\* rx.recv(): blocks while the channel is empty (the driver's own Sender
\* keeps it connected)
Recv ==
    /\ pc = "recv"
    /\ Len(results) < RecvCount(plan.stages[stageIdx])
    /\ chan # <<>>
    /\ results' = Append(results, Head(chan))
    /\ chan' = Tail(chan)
    /\ UNCHANGED <<db, query, plan, pc, stageIdx, tasks, cache, merged, result,
                   outcome, failed, prev, runs, build, pf>>

\* exec_stage returns Ok(results)
StageReturn ==
    /\ pc = "recv"
    /\ Len(results) >= RecvCount(plan.stages[stageIdx])
    /\ pc' = "merge"
    /\ UNCHANGED <<db, query, plan, stageIdx, tasks, chan, results, cache, merged,
                   result, outcome, failed, prev, runs, build, pf>>

\* one turn of exec's inner loop over the stage's results
MergeOne ==
    /\ pc = "merge"
    /\ results # <<>>
    /\ LET m == Head(results)
       IN  /\ IF m.kind = "Eids"
              THEN /\ cache' = InsertOrMerge(cache, m.name, m.eids)
                   /\ result' = result
              ELSE /\ cache' = cache
                   /\ result' = Append(result, [name |-> m.name, entries |-> m.entries])
           /\ merged' = merged \cup {m}
    /\ results' = Tail(results)
    /\ UNCHANGED <<db, query, plan, pc, stageIdx, tasks, chan, outcome, failed, prev,
                   runs, build, pf>>

\* the next turn of exec's outer loop, or Ok(result)
NextStage ==
    /\ pc = "merge"
    /\ results = <<>>
    /\ IF stageIdx < Len(plan.stages)
       THEN /\ stageIdx' = stageIdx + 1
            /\ pc' = "spawn"
            /\ outcome' = outcome
       ELSE /\ stageIdx' = stageIdx
            /\ pc' = "done"
            /\ outcome' = "Ok"
    /\ UNCHANGED <<db, query, plan, tasks, chan, results, cache, merged, result,
                   failed, prev, runs, build, pf>>

ResultSet(res) == {res[i] : i \in DOMAIN res}

\* the repl loops: the same query text is entered again
Repeat ==
    /\ pc = "done"
    /\ runs < MaxRuns - 1
    /\ prev' = ResultSet(result)
    /\ runs' = runs + 1
    /\ plan' = NoPlan
    /\ pc' = "new"
    /\ stageIdx' = 0
    /\ tasks' = <<>>
    /\ chan' = <<>>
    /\ results' = <<>>
    /\ cache' = <<>>
    /\ merged' = {}
    /\ result' = <<>>
    /\ outcome' = "none"
    /\ UNCHANGED <<db, query, failed, build, pf>>

Next ==
    \/ ParseFail
    \/ PlanNew
    \/ Validate
    \/ ExecBegin
    \/ Spawn
    \/ \E key \in DOMAIN tasks : TaskRun(key)
    \/ ScopeExit
    \/ ScopePanic
    \/ Recv
    \/ StageReturn
    \/ MergeOne
    \/ NextStage
    \/ Repeat

Spec == Init /\ [][Next]_vars

(***************************************************************************)
(* The planner alone, on every list of at most MaxLines lines of a pool    *)
(***************************************************************************)
LinePool ==
    { SelectLine(<<T("v")>>),
      SelectLine(<<T("k"), U("t_id")>>),
      JoinLine("u", T("v")),
      JoinLine("t", U("t_id")),
      JoinLine("t", T("v")),
      WhereLine(T("v"), Gt(1)),
      WhereLine(T("v"), Lt(3)),
      WhereLine(T("time"), Gt(1)),
      WhereLine(T("time"), Ge(0)),
      WhereLine(T("id"), Or(Eq(1), Eq(3))),
      WhereLine(U("t_id"), Gt(1)),
      LimitLine(1),
      LimitLine(2) }

LineLists == UNION {[1..n -> LinePool] : n \in 0..MaxLines}

InitPlan ==
    /\ db = Ingested(RowsT1)
    /\ query \in LineLists
    /\ build \in {b \in Builds : ~b.scope_panics}
    /\ plan = NoPlan
    /\ pc = "new"
    /\ stageIdx = 0
    /\ tasks = <<>>
    /\ chan = <<>>
    /\ results = <<>>
    /\ cache = <<>>
    /\ merged = {}
    /\ result = <<>>
    /\ outcome = "none"
    /\ failed = {}
    /\ prev = {}
    /\ runs = 0
    /\ pf = [op |-> "none"]

NextPlan ==
    \/ PlanNew
    \/ Validate

SpecPlan == InitPlan /\ [][NextPlan]_vars


(***************************************************************************)
(* is_valid on a Plan whose public `stages` a caller filled in, next to    *)
(* the plans Plan::new builds                                              *)
(***************************************************************************)
NodePool ==
    { Select(T("v"), DefaultLimit),
      Join(IdOf(U("t_id")), T("v")),
      Where(T("v"), Gt(1), NoBound),
      WhereId(T("id"), <<1>>) }

StageLists == UNION {[1..n -> SUBSET NodePool] : n \in 0..MaxStages}

InitValid ==
    /\ db = Ingested(RowsT1)
    /\ build \in {b \in Builds : ~b.scope_panics}
    /\ \/ /\ query \in LineLists
          /\ plan = NoPlan
          /\ pc = "new"
          /\ pf = [op |-> "none"]
       \/ /\ query = <<>>
          /\ \E sl \in StageLists :
                plan = [state |-> "optimized", staged |-> sl, fused |-> sl, stages |-> sl]
          /\ pc = "built"
          /\ pf = [op |-> "is_valid"]
    /\ stageIdx = 0
    /\ tasks = <<>>
    /\ chan = <<>>
    /\ results = <<>>
    /\ cache = <<>>
    /\ merged = {}
    /\ result = <<>>
    /\ outcome = "none"
    /\ failed = {}
    /\ prev = {}
    /\ runs = 0

SpecValid == InitValid /\ [][NextPlan]_vars


(***************************************************************************)
(* TimeBound::from_predicate on its own, on every comparison of a time     *)
(* with a usize and every And of two of them; pf records the call          *)
(***************************************************************************)
TimeConstants == {Constant(c, IntV(t)) : c \in Comparators, t \in 0..UsizeMax}

TimePredicates == TimeConstants \cup {And(p, q) : p \in TimeConstants, q \in TimeConstants}

InitBound ==
    /\ db = DbNew
    /\ \E p \in TimePredicates : pf = [op |-> "none", pred |-> p, out |-> BoundPanic]
    /\ query = <<>>
    /\ build \in {b \in Builds : ~b.scope_panics}
    /\ plan = NoPlan
    /\ pc = "bound"
    /\ stageIdx = 0
    /\ tasks = <<>>
    /\ chan = <<>>
    /\ results = <<>>
    /\ cache = <<>>
    /\ merged = {}
    /\ result = <<>>
    /\ outcome = "none"
    /\ failed = {}
    /\ prev = {}
    /\ runs = 0

\* a call of TimeBound::from_predicate
FromPredicateCall ==
    /\ pc = "bound"
    /\ pf.op = "none"
    /\ \E o \in FromPredicate(pf.pred) :
          pf' = [pf EXCEPT !.op = "from_predicate", !.out = o]
    /\ UNCHANGED <<db, query, plan, pc, stageIdx, tasks, chan, results, cache, merged,
                   result, outcome, failed, prev, runs, build>>

NextBound == FromPredicateCall

SpecBound == InitBound /\ [][NextBound]_vars


(***************************************************************************)
(* optimize_columns on a db of one column of 0..MaxColLen datums with      *)
(* pairwise different times, in several orders                             *)
(***************************************************************************)
\* the times (a * i + b) % 11 of the datums 1..n: pairwise different
TimeSeq(n, a, b) == [i \in 1..n |-> (a * i + b) % 11]

ColumnOfTimes(times) ==
    [ColumnNew(T("v"), "Int") EXCEPT
        !.data = [i \in DOMAIN times |-> Datum(i, IntV(i), times[i])]]

InitIndex ==
    /\ \E n \in 0..MaxColLen, a \in {1, 2, 3, 5}, b \in 0..2 :
          db = [DbAddColumn(DbNew, T("v"), "Int").db EXCEPT
                    !.cols[T("v")] = ColumnOfTimes(TimeSeq(n, a, b))]
    /\ pf = [op |-> "none"]
    /\ query = <<>>
    /\ build = [overflow_checks |-> TRUE, scope_panics |-> TRUE]
    /\ plan = NoPlan
    /\ pc = "index"
    /\ stageIdx = 0
    /\ tasks = <<>>
    /\ chan = <<>>
    /\ results = <<>>
    /\ cache = <<>>
    /\ merged = {}
    /\ result = <<>>
    /\ outcome = "none"
    /\ failed = {}
    /\ prev = {}
    /\ runs = 0

\* the call of Db::optimize_columns
IndexCall ==
    /\ pc = "index"
    /\ pf.op = "none"
    /\ db' = OptimizeColumns(db)
    /\ pf' = [op |-> "optimize_columns"]
    /\ UNCHANGED <<query, plan, pc, stageIdx, tasks, chan, results, cache, merged,
                   result, outcome, failed, prev, runs, build>>

NextIndex == IndexCall

SpecIndex == InitIndex /\ [][NextIndex]_vars


(***************************************************************************)
(* The Cache overlay on its own: insert_or_merge calls in any order; pf    *)
(* records the last call and, per name, the id sets inserted so far        *)
(***************************************************************************)
CacheNames == {T("id"), U("id")}

EidSets == SUBSET {1, 2, 3}

InitCache ==
    /\ db = DbNew
    /\ cache = <<>>
    /\ pf = [op |-> "none", name |-> T("id"), eids |-> {}, hist |-> [n \in CacheNames |-> {}]]
    /\ query = <<>>
    /\ build = [overflow_checks |-> TRUE, scope_panics |-> TRUE]
    /\ plan = NoPlan
    /\ pc = "cache"
    /\ stageIdx = 0
    /\ tasks = <<>>
    /\ chan = <<>>
    /\ results = <<>>
    /\ merged = {}
    /\ result = <<>>
    /\ outcome = "none"
    /\ failed = {}
    /\ prev = {}
    /\ runs = 0

\* a call of Cache::insert_or_merge
InsertOrMergeCall ==
    /\ pc = "cache"
    /\ runs < MaxInserts
    /\ \E name \in CacheNames, eids \in EidSets :
          /\ cache' = InsertOrMerge(cache, name, eids)
          /\ pf' = [op |-> "insert_or_merge", name |-> name, eids |-> eids,
                    hist |-> [pf.hist EXCEPT ![name] = @ \cup {eids}]]
    /\ runs' = runs + 1
    /\ UNCHANGED <<db, query, plan, pc, stageIdx, tasks, chan, results, merged,
                   result, outcome, failed, prev, build>>

NextCache == InsertOrMergeCall

SpecCache == InitCache /\ [][NextCache]_vars


(***************************************************************************)
(* The column store on its own: add_column, add_datum, optimize_columns    *)
(* and whole ingests, in any order; pf records the last call               *)
(***************************************************************************)
ColPool == {ColumnName("a", "x"), ColumnName("a", "y")}
Types == {"Int", "String"}
RawPool == {"1", "x"}
IdPool == {1, 2}
TimePool == {0, 1}

SchemaA == RawSchema("a", ("x" :> "Int"), <<"time", "id", "x">>)
SchemaB == RawSchema("b", ("y" :> "Bool"), <<"id", "y", "time">>)
\* CSV files: (time, id, x) rows out of time order; a cell that does not parse
RowsA == <<<<"2", "1", "3">>, <<"0", "2", "1">>, <<"1", "1", "2">>>>
RowsBad == <<<<"1", "1", "2">>, <<"0", "2", "x">>>>
RowsB == <<<<"1", "true", "1">>, <<"2", "false", "0">>>>
Ingests == {[schema |-> SchemaA, rows |-> RowsA], [schema |-> SchemaA, rows |-> RowsBad],
            [schema |-> SchemaB, rows |-> RowsB]}

Call(op, name, t, id, raw, time, ok, err, rows, cols) ==
    [op |-> op, name |-> name, t |-> t, id |-> id, raw |-> raw, time |-> time,
     ok |-> ok, err |-> err, rows |-> rows, cols |-> cols]

RECURSIVE SumLen(_, _)
SumLen(cols, names) ==
    IF names = {} THEN 0
    ELSE LET n == CHOOSE x \in names : TRUE
         IN  Len(cols[n].data) + SumLen(cols, names \ {n})

InitDb ==
    /\ db = DbNew
    /\ pf = [op |-> "none"]
    /\ query = <<>>
    /\ build = [overflow_checks |-> TRUE, scope_panics |-> TRUE]
    /\ plan = NoPlan
    /\ pc = "db"
    /\ stageIdx = 0
    /\ tasks = <<>>
    /\ chan = <<>>
    /\ results = <<>>
    /\ cache = <<>>
    /\ merged = {}
    /\ result = <<>>
    /\ outcome = "none"
    /\ failed = {}
    /\ prev = {}
    /\ runs = 0

DbFrame == UNCHANGED <<query, plan, pc, stageIdx, tasks, chan, results, cache, merged,
                       result, outcome, failed, prev, runs, build>>

\* a call of Db::add_column
AddColumnCall ==
    /\ pc = "db"
    /\ \E name \in ColPool, t \in Types :
          LET r == DbAddColumn(db, name, t)
          IN  /\ db' = r.db
              /\ pf' = Call("add_column", name, t, 0, "", 0, r.ok, r.err, <<>>, {})
    /\ DbFrame

\* a call of Db::add_datum
AddDatumCall ==
    /\ pc = "db"
    /\ SumLen(db.cols, DOMAIN db.cols) < MaxDatums
    /\ \E name \in ColPool, id \in IdPool, raw \in RawPool, time \in TimePool :
          LET r == DbAddDatum(db, name, id, raw, time)
          IN  /\ db' = r.db
              /\ pf' = Call("add_datum", name, "", id, raw, time, r.ok, r.err, <<>>, {})
    /\ DbFrame

\* a call of Db::optimize_columns
OptimizeColumnsCall ==
    /\ pc = "db"
    /\ db' = OptimizeColumns(db)
    /\ pf' = Call("optimize_columns", ColumnName("", ""),
                  IF db = OptimizeColumns(db) THEN "same" ELSE "changed",
                  0, "", 0, TRUE, "none", <<>>, {})
    /\ DbFrame

\* a run of `add`: add_to_db on the db file; a panic leaves the file as it was
AddToDbCall ==
    /\ pc = "db"
    /\ \E in \in Ingests :
          LET r == AddToDb(db, in.schema, in.rows)
          IN  /\ db' = r.db
              /\ pf' = Call("add_to_db", ColumnName(in.schema.table, ""), "", 0, "", 0,
                            r.ok, IF r.ok THEN "none" ELSE "panic", in.rows,
                            DOMAIN SchemaFromRaw(in.schema).columns)
    /\ DbFrame

NextDb ==
    \/ AddColumnCall
    \/ AddDatumCall
    \/ OptimizeColumnsCall
    \/ AddToDbCall

SpecDb == InitDb /\ [][NextDb]_vars


(***************************************************************************)
(* The id counter: add_column, next_id and add_datum calls in any order;   *)
(* prev collects the ids next_id returned                                  *)
(***************************************************************************)
TablePool == {"a", "b"}

\* a call of Db::next_id
NextIdCall ==
    /\ pc = "db"
    /\ db.entity_count < MaxIds
    /\ \E table \in TablePool :
          LET r == DbNextId(db, table)
          IN  /\ db' = r.db
              /\ pf' = Call("next_id", ColumnName(table, ""), "", r.id, "", 0, r.ok,
                            IF r.ok THEN "none" ELSE "panic", <<>>, {})
              /\ prev' = IF r.ok THEN prev \cup {r.id} ELSE prev
    /\ UNCHANGED <<query, plan, pc, stageIdx, tasks, chan, results, cache, merged,
                   result, outcome, failed, runs, build>>

NextIds ==
    \/ AddColumnCall
    \/ NextIdCall
    \/ AddDatumCall

\* the db holds a table b of one column; table a comes with add_column
InitIds ==
    /\ db = DbAddColumn(DbNew, ColumnName("b", "y"), "Int").db
    /\ pf = [op |-> "none"]
    /\ query = <<>>
    /\ build = [overflow_checks |-> TRUE, scope_panics |-> TRUE]
    /\ plan = NoPlan
    /\ pc = "db"
    /\ stageIdx = 0
    /\ tasks = <<>>
    /\ chan = <<>>
    /\ results = <<>>
    /\ cache = <<>>
    /\ merged = {}
    /\ result = <<>>
    /\ outcome = "none"
    /\ failed = {}
    /\ prev = {}
    /\ runs = 0

SpecIds == InitIds /\ [][NextIds]_vars


(***************************************************************************)
(* exec with the tasks of a stage run one after another, in one fixed      *)
(* order: the reference the interleaved runs are compared with             *)
(***************************************************************************)
SeqStageOrder(stage) == CHOOSE o \in Orders(stage) : TRUE

RECURSIVE SeqMerge(_, _, _)
SeqMerge(acc, outs, i) ==
    IF i > Len(outs) THEN acc
    ELSE SeqMerge(IF outs[i].kind = "Eids"
                  THEN [acc EXCEPT !.cache = InsertOrMerge(@, outs[i].name, outs[i].eids)]
                  ELSE [acc EXCEPT !.rows = @ \cup {[name |-> outs[i].name,
                                                     entries |-> outs[i].entries]}],
                  outs, i + 1)

RECURSIVE SeqExecFrom(_, _, _, _)
SeqExecFrom(d, stages, i, acc) ==
    IF i > Len(stages) THEN acc
    ELSE LET order == SeqStageOrder(stages[i])
             outs == [j \in DOMAIN order |-> FindEntries(d, acc.cache, order[j])]
         IN  IF \E j \in DOMAIN outs : ~outs[j].ok
             THEN [ok |-> FALSE, cache |-> acc.cache, rows |-> {}]
             ELSE SeqExecFrom(d, stages, i + 1, SeqMerge(acc, outs, 1))

SeqExec(d, stages) == SeqExecFrom(d, stages, 1, [ok |-> TRUE, cache |-> <<>>, rows |-> {}])

(***************************************************************************)
(* The claims                                                              *)
(***************************************************************************)

\* C1: stages run strictly in order with a barrier: when a task of a stage has
\* been spawned, every task of every earlier stage has finished, its message
\* has been consumed by exec, and an id set it produced has been merged into
\* the cache (the cache entry of its name lies within that id set).
C1_StageBarrier ==
    \A key \in DOMAIN tasks :
        \A k \in 1..(key[1] - 1) :
            \A node \in plan.stages[k] :
                /\ <<k, node>> \in DOMAIN tasks
                /\ tasks[<<k, node>>] # "running"
                /\ tasks[<<k, node>>] = "sent" =>
                      \E m \in merged :
                         /\ m.from = <<k, node>>
                         /\ m.kind = "Eids" =>
                               (m.name \in DOMAIN cache /\ cache[m.name] \subseteq m.eids)

\* a task of the second stage is running after a first stage of two tasks
C1_Witness ==
    /\ pc = "scope"
    /\ stageIdx = 2
    /\ Cardinality(plan.stages[1]) >= 2
    /\ \E key \in DOMAIN tasks : key[1] = 2 /\ tasks[key] = "running"

\* C2: for a fixed db and plan, the cache at every stage boundary and the set
\* of (ColumnName, entries) pairs exec returns are those of the run in which
\* the tasks of each stage complete in one fixed order, whatever the order
\* the tasks of the interleaved run completed in.
C2_OrderInvariant ==
    /\ pc = "spawn" =>
          LET r == SeqExec(db, SubSeq(plan.stages, 1, stageIdx - 1))
          IN  r.ok /\ cache = r.cache
    /\ pc = "done" =>
          LET r == SeqExec(db, plan.stages)
          IN  r.ok /\ cache = r.cache /\ ResultSet(result) = r.rows

\* two tasks of a stage sent different id sets for the same name, the task the
\* fixed order lists second having sent first
C2_Witness ==
    /\ pc = "recv"
    /\ Len(chan) = 2
    /\ chan[1].kind = "Eids" /\ chan[2].kind = "Eids"
    /\ chan[1].name = chan[2].name
    /\ chan[1].eids # chan[2].eids
    /\ chan[1].from[2] = SeqStageOrder(plan.stages[stageIdx])[2]

\* exec has stopped: it returned, it unwound, or it blocks in recv for good
Hung == pc = "recv" /\ ScopeJoined /\ chan = <<>>
           /\ Len(results) < RecvCount(plan.stages[stageIdx])
ExecStopped == pc \in {"done", "panicked"} \/ Hung

\* C3: if evaluating a node fails (MissingColumn, InvalidJoin), exec returns
\* that error to its caller, returns no rows and runs no later stage.
C3_ErrorReturned ==
    (failed # {} /\ plan.state = "validated" /\ ExecStopped) =>
        /\ pc = "done"
        /\ outcome = "Err"
        /\ result = <<>>

\* C4: values of different tags compare false under every comparator, so a
\* Where whose constant has another tag than the column matches no datum.
C4_CrossTagMatchesNothing ==
    \A i \in DOMAIN chan :
        LET node == chan[i].from[2]
        IN  (/\ node.kind = "Where"
             /\ node.pred.op = "Constant"
             /\ node.col \in DOMAIN db.cols
             /\ node.pred.value.tag # db.cols[node.col].type)
            => chan[i].eids = {}

PlanBuilt == plan.state \notin {"none", "panicked"}

\* C5: in every plan built from a list of query lines, every Select node is
\* in the final stage, no Select node is in an earlier stage, and no stage is
\* empty.
C5_SelectsInFinalStage ==
    PlanBuilt =>
        /\ \A i \in DOMAIN plan.stages :
              /\ plan.stages[i] # {}
              /\ \A n \in plan.stages[i] : n.kind = "Select" => i = Len(plan.stages)
        /\ \A j \in DOMAIN BuildGraph(query).nodes :
              BuildGraph(query).nodes[j].kind = "Select" =>
                 /\ plan.stages # <<>>
                 /\ BuildGraph(query).nodes[j] \in plan.stages[Len(plan.stages)]

\* a plan of three stages whose optimizer fused or bounded a stage and whose
\* last stage holds a Select
C5_Witness ==
    /\ PlanBuilt
    /\ Len(plan.stages) = 3
    /\ plan.stages # plan.staged
    /\ \E n \in plan.stages[3] : n.kind = "Select"

\* the time pass of the optimizer left the fused stages as they were
NoTimePass == plan.stages = plan.fused

\* C6: fusing the Where nodes of one column into Where(c, p1 AND p2) returns
\* the same result as running the Where nodes separately and intersecting
\* their id sets in the cache, on every db, also one whose columns hold
\* several datums of one entity id.
C6_FusionEquivalent ==
    (pc = "done" /\ plan.fused # plan.staged /\ NoTimePass) =>
        LET separate == SeqExec(db, plan.staged)
        IN  /\ separate.ok
            /\ ResultSet(result) = separate.rows

RECURSIVE IdsToOr(_)
\* the disjunction of integer equalities that extract_ids turned into ids
IdsToOr(ids) ==
    IF Len(ids) = 1 THEN Eq(ids[1])
    ELSE Or(IdsToOr(SubSeq(ids, 1, Len(ids) - 1)), Eq(ids[Len(ids)]))

\* the stages with every WhereId put back as the Where scan of the id column
Unrewritten(stages) ==
    [i \in DOMAIN stages |->
        {IF n.kind = "WhereId" THEN Where(n.col, IdsToOr(n.ids), NoBound) ELSE n
            : n \in stages[i]}]

HasWhereId == \E i \in DOMAIN plan.stages : \E n \in plan.stages[i] : n.kind = "WhereId"

\* C7: executing the WhereId(T.id, ids) that parse_line emits for a
\* disjunction of integer equalities on T.id yields the same final result as
\* executing the unrewritten Where(T.id, predicate) scan of the id column.
C7_IdRewritePreservesResult ==
    (pc = "done" /\ HasWhereId) =>
        LET scan == SeqExec(db, Unrewritten(plan.stages))
        IN  /\ scan.ok
            /\ ResultSet(result) = scan.rows

\* C8: time-bound propagation never changes the rows: exec of the optimized
\* plan (time Where removed or bounded, its bound attached to the other Where
\* nodes of the table) returns the rows of the same stages with the time
\* Where kept as an ordinary Where and no bounds.
C8_TimeBoundPreservesRows ==
    (pc = "done" /\ ~NoTimePass) =>
        LET full == SeqExec(db, plan.fused)
        IN  /\ full.ok
            /\ ResultSet(result) = full.rows

\* C9: exec is deterministic: the same query text run again on the same db
\* returns the same set of (ColumnName, column slice) pairs, whatever the
\* iteration order of the hash sets and the schedule of the tasks.
C9_Deterministic ==
    (pc = "done" /\ runs >= 1) => ResultSet(result) = prev

\* the first n datums of a column
FirstN(data, n) == SubSeq(data, 1, IF n < Len(data) THEN n ELSE Len(data))

OnlySelects == \A i \in DOMAIN query : query[i].kind \in {"Select", "Limit"}

\* C10: on a db written by the ingest path, a query of select lines alone
\* returns, for each selected column of the db, every datum of the column up
\* to the limit, in the column's time-ascending order.
C10_SelectAloneReturnsAll ==
    (pc = "done" /\ OnlySelects) =>
        \A n \in plan.stages[1] :
            n.col \in DOMAIN db.cols =>
                [name |-> n.col, entries |-> FirstN(db.cols[n.col].data, n.limit)]
                    \in ResultSet(result)

\* the positions of the datums of `data` whose id is in eids
MatchingAt(data, eids) == {i \in DOMAIN data : data[i].id \in eids}

\* the positions of the first `limit` of them
FirstMatchingAt(data, eids, limit) ==
    {i \in MatchingAt(data, eids) :
        Cardinality({j \in MatchingAt(data, eids) : j < i}) < limit}

\* `entries` lists the datums at the positions K of `data`, in their order
ListsPositions(entries, data, K) ==
    /\ Len(entries) = Cardinality(K)
    /\ \A i \in K : entries[Cardinality({j \in K : j <= i})] = data[i]

\* C11: Select(c, limit) returns exactly the first `limit` datums of
\* Db.cols[c], in the column's stored order, among those whose id is in
\* Cache.get(id-of(c)) at entry to the final stage: at most `limit` datums,
\* every id in that set, relative order kept.
C11_SelectFirstLimit ==
    pc = "done" =>
        \A n \in plan.stages[Len(plan.stages)] :
            \E i \in DOMAIN result :
                LET eids == CacheGet(cache, db, IdOf(n.col)).eids
                    data == db.cols[n.col].data
                IN  /\ result[i].name = n.col
                    /\ Len(result[i].entries) <= n.limit
                    /\ \A k \in DOMAIN result[i].entries : result[i].entries[k].id \in eids
                    /\ ListsPositions(result[i].entries, data,
                                      FirstMatchingAt(data, eids, n.limit))

\* a select whose limit cut off a matching datum and whose id set left out
\* an earlier datum of the column
C11_Witness ==
    /\ pc = "done"
    /\ \E n \in plan.stages[Len(plan.stages)] :
          LET eids == CacheGet(cache, db, IdOf(n.col)).eids
              data == db.cols[n.col].data
          IN  /\ Cardinality(MatchingAt(data, eids)) > n.limit
              /\ data[1].id \notin eids
              /\ \E i \in DOMAIN result : result[i].name = n.col /\ result[i].entries # <<>>

\* the query `select U.f` / `join U T.c` / `where T.c OP v`
JoinScenario ==
    /\ Len(query) = 3
    /\ query[1].kind = "Select" /\ Len(query[1].cols) = 1
    /\ query[2].kind = "Join" /\ query[2].table = query[1].cols[1].table
    /\ query[2].right.table # query[2].table
    /\ query[3].kind = "Where" /\ query[3].col = query[2].right

\* the rows of U.f whose value is the id of a T entity satisfying the where
JoinScenarioRows ==
    LET f == query[1].cols[1]
        c == query[3].col
        tIds == MatchByPredicates(db.cols[c].data, query[3].pred)
        uIds == {db.cols[f].data[i].id :
                    i \in {j \in DOMAIN db.cols[f].data : db.cols[f].data[j].value.n \in tIds}}
    IN  [name |-> f, entries |-> CloneMatchingEntries(db.cols[f].data, uIds, DefaultLimit)]

\* C12: for a query of the shape `select U.f` / `join U T.c` / `where T.c OP v`
\* the plan built from it is valid, and exec returns exactly the U rows whose
\* foreign-key value is the id of a T entity satisfying the where predicate.
C12_JoinScenarioRows ==
    (JoinScenario /\ pc \notin {"new", "built"}) =>
        /\ plan.state = "validated"
        /\ ExecStopped => (pc = "done" /\ result = <<JoinScenarioRows>>)

\* a select of one column of a table T followed by where lines on columns
\* of T that the db holds
ConjunctiveQuery ==
    /\ Len(query) >= 2
    /\ query[1].kind = "Select" /\ Len(query[1].cols) = 1
    /\ query[1].cols[1] \in DOMAIN db.cols
    /\ \A i \in 2..Len(query) :
          /\ query[i].kind = "Where"
          /\ query[i].col.table = query[1].cols[1].table
          /\ query[i].col \in DOMAIN db.cols

\* the entity ids that satisfy every where line of the query
SatisfyAll ==
    {id \in {db.cols[query[1].cols[1]].data[j].id : j \in DOMAIN db.cols[query[1].cols[1]].data} :
        \A i \in 2..Len(query) :
            id \in MatchByPredicates(db.cols[query[i].col].data, query[i].pred)}

\* C13: where lines are conjunctive: with where lines W1..Wn on columns of
\* the selected table, the selected rows are exactly the rows of the table
\* (up to the limit) whose entity id satisfies every Wi, whatever stages the
\* Where nodes are placed in.  Stated here for the plans that hold neither a
\* WhereId node nor a time bound.
C13_WheresConjunctive ==
    (ConjunctiveQuery /\ pc = "done" /\ ~HasWhereId /\ NoTimePass) =>
        result = <<[name |-> query[1].cols[1],
                    entries |-> CloneMatchingEntries(db.cols[query[1].cols[1]].data,
                                                     SatisfyAll, DefaultLimit)]>>

\* the verdict on a stage list, by the rules of plan validity
Verdict(stages) ==
    CASE stages = <<>> -> "NoStages"
      [] stages # <<>> /\ (\E i \in DOMAIN stages : Cardinality(stages[i]) = 0) -> "EmptyStages"
      [] OTHER ->
            IF /\ \A n \in stages[Len(stages)] : n.kind = "Select"
               /\ \A i \in 1..(Len(stages) - 1) : \A n \in stages[i] : n.kind # "Select"
            THEN "validated"
            ELSE "InvalidStageOrder"

NoSelectLine == \A i \in DOMAIN query : query[i].kind # "Select"

\* C14: is_valid returns Ok iff the plan has at least one stage, no stage is
\* empty, the final stage holds only Select nodes and no earlier stage holds
\* a Select; otherwise NoStages, EmptyStages or InvalidStageOrder, checked in
\* that order.  A plan built from query lines without a select line is never
\* valid.
C14_IsValidVerdict ==
    pc \in {"exec", "rejected"} =>
        /\ plan.state = Verdict(plan.stages)
        /\ (pf.op = "none" /\ NoSelectLine) => plan.state # "validated"

\* is_valid answered InvalidStageOrder for a stage list whose last stage
\* holds only Select nodes: the Select it objects to is in an earlier stage
C14_Witness ==
    /\ pc = "rejected"
    /\ pf.op = "is_valid"
    /\ plan.state = "InvalidStageOrder"
    /\ \A n \in plan.stages[Len(plan.stages)] : n.kind = "Select"

\* the value of the last Limit line of the query, 20 without one
LastLimit ==
    LET at == {i \in DOMAIN query : query[i].kind = "Limit"}
    IN  IF at = {} THEN 20
        ELSE query[CHOOSE i \in at : \A k \in at : k <= i].size

\* the nodes the lines other than Limit lines are parsed to
LineNodes ==
    UNION {{ParseLine(query[i], LastLimit)[k].node : k \in DOMAIN ParseLine(query[i], LastLimit)}
              : i \in {j \in DOMAIN query : query[j].kind # "Limit"}}

\* C15: every Select node of a plan carries the value of the last Limit line
\* of the query, or 20 when there is none; Limit lines add no node, and where
\* the Limit line stands relative to the select lines does not matter.
C15_LimitOfSelects ==
    PlanBuilt =>
        \A i \in DOMAIN plan.staged :
            /\ plan.staged[i] \subseteq LineNodes
            /\ \A n \in plan.staged[i] : n.kind = "Select" => n.limit = LastLimit
            /\ \A n \in plan.stages[i] : n.kind = "Select" => n.limit = LastLimit

\* a plan with a Select built from a query whose two Limit lines differ and
\* whose last Limit line comes after the select line
C15_Witness ==
    /\ PlanBuilt
    /\ \E i, j, k \in DOMAIN query :
          /\ i < j /\ j < k
          /\ query[i].kind = "Limit" /\ query[k].kind = "Limit"
          /\ query[i].size # query[k].size
          /\ query[j].kind = "Select"
    /\ \E i \in DOMAIN plan.stages : \E n \in plan.stages[i] : n.kind = "Select"

\* C16: after an ingest (add_column per schema column, add_datum per cell,
\* optimize_columns) every column of the table has as many datums as the CSV
\* file has rows, and every datum's id is a member of Db.ids[table].
C16_IngestLengthsAndIds ==
    (pf.op = "add_to_db" /\ pf.ok) =>
        \A c \in pf.cols :
            /\ c \in DOMAIN db.cols
            /\ Len(db.cols[c].data) = Len(pf.rows)
            /\ \A i \in DOMAIN db.cols[c].data :
                  /\ c.table \in DOMAIN db.ids
                  /\ db.cols[c].data[i].id \in db.ids[c.table]

\* C17: add_column with a name that exists returns NameAlreadyTaken and
\* leaves cols, ids and entity_count as they were; the column keeps its type
\* and datums, and no call ever changes the type of a column.
C17_AddColumnDuplicate ==
    [][/\ (pf'.op = "add_column" /\ pf'.name \in DOMAIN db.cols) =>
             (~pf'.ok /\ pf'.err = "NameAlreadyTake" /\ db' = db)
       /\ \A c \in DOMAIN db.cols :
             c \in DOMAIN db'.cols /\ db'.cols[c].type = db.cols[c].type]_vars

\* add_column of another type was refused for a column that holds datums
C17_Witness ==
    /\ pf.op = "add_column"
    /\ pf.err = "NameAlreadyTake"
    /\ pf.name \in DOMAIN db.cols
    /\ db.cols[pf.name].type # pf.t
    /\ db.cols[pf.name].data # <<>>

\* the raw text parses as a value of the column type
Parses(type, raw) ==
    \/ type = "String"
    \/ type = "Int" /\ raw \in {"0", "1", "2", "3", "4", "5"}
    \/ type = "Bool" /\ raw \in {"true", "false"}

Parsed(type, raw) ==
    CASE type = "String" -> StringV(raw)
      [] type = "Int" -> IntV(ParseUsize(raw).v)
      [] type = "Bool" -> BoolV(raw = "true")

\* C18: add_datum on an unknown column returns NameNotFound, add_datum of a
\* text that does not parse as the column's type returns ParseError, and the
\* Db is unchanged in both cases; on success exactly the datum (id, parsed
\* value, time) is appended to the named column and nothing else changes.
C18_AddDatum ==
    [][pf'.op = "add_datum" =>
          IF pf'.name \notin DOMAIN db.cols
          THEN ~pf'.ok /\ pf'.err = "NameNotFound" /\ db' = db
          ELSE IF ~Parses(db.cols[pf'.name].type, pf'.raw)
          THEN ~pf'.ok /\ pf'.err = "ParseError" /\ db' = db
          ELSE /\ pf'.ok
               /\ db' = [db EXCEPT !.cols[pf'.name].data =
                            Append(@, Datum(pf'.id, Parsed(db.cols[pf'.name].type, pf'.raw),
                                            pf'.time))]]_vars

\* add_datum returned ParseError on a column that holds a datum
C18_Witness ==
    /\ pf.op = "add_datum"
    /\ pf.err = "ParseError"
    /\ db.cols[pf.name].data # <<>>

\* how often datum x occurs in the sequence
Occurrences(data, x) == Cardinality({i \in DOMAIN data : data[i] = x})

\* C19: after optimize_columns every column's datums are non-decreasing in
\* time and are a permutation of its datums before the call.
C19_OptimizeSortsAndKeeps ==
    [][pf'.op = "optimize_columns" =>
          /\ DOMAIN db'.cols = DOMAIN db.cols
          /\ \A c \in DOMAIN db.cols :
                LET before == db.cols[c].data
                    after == db'.cols[c].data
                IN  /\ \A i, j \in DOMAIN after : i < j => after[i].time <= after[j].time
                    /\ Len(after) = Len(before)
                    /\ \A i \in DOMAIN before :
                          Occurrences(after, before[i]) = Occurrences(before, before[i])]_vars

\* optimize_columns reordered a column of the db
C19_Witness ==
    /\ pf.op = "optimize_columns"
    /\ pf.t = "changed"
    /\ \E c \in DOMAIN db.cols : Len(db.cols[c].data) >= 2

\* exec has been called for the query: it runs, returned or unwound
ExecCalled ==
    \/ pc \in {"spawn", "scope", "recv", "merge", "done"}
    \/ pc = "panicked" /\ outcome = "panic"
    \/ tasks # <<>>

\* C20: only validated plans are executed: exec is called on a plan only
\* after Plan::new (graph, stages, optimize) completed for the query and
\* is_valid returned Ok for that plan; after a grammar error or an invalid
\* plan no exec happens for that query.
C20_OnlyValidatedExecuted ==
    /\ (ExecCalled \/ pc = "exec") =>
          /\ plan.state = "validated"
          /\ plan.staged \in BuildStages(BuildGraph(query))
          /\ \E o \in Optimize(plan.staged) : o.ok /\ o.stages = plan.stages
          /\ Verdict(plan.stages) = "validated"
    /\ (pc = "rejected" \/ query = GrammarError \/ (PlanBuilt /\ Verdict(plan.stages) # "validated")) =>
          /\ ~ExecCalled
          /\ result = <<>>
          /\ outcome = "none"

\* the repl dropped a plan whose stages hold nodes exec could have run
C20_Witness ==
    /\ pc = "rejected"
    /\ plan.state = "InvalidStageOrder"
    /\ plan.stages # <<>>
    /\ tasks = <<>>

\* the stages of the built plan (as build_stages returned them) that hold
\* the node value n
StagesOf(n) == {i \in DOMAIN plan.staged : n \in plan.staged[i]}

RECURSIVE ReachFrom(_, _)
\* the nodes the edges of the graph lead to from the set S
ReachFrom(g, S) ==
    LET N == S \cup {j \in DOMAIN g.nodes : \E i \in S : <<i, j>> \in g.edges}
    IN  IF N = S THEN S ELSE ReachFrom(g, N)

\* no node of the graph requires, directly or through others, what it provides
Acyclic(g) ==
    \A i \in DOMAIN g.nodes :
        i \notin ReachFrom(g, {j \in DOMAIN g.nodes : <<i, j>> \in g.edges})

\* C21: inter-stage order is strictly topological: whenever a node A
\* requires the id column a different node B provides, every stage that
\* holds B comes strictly before every stage that holds A, for every query
\* and every DFS visiting order.  Stated on the queries whose graph has no
\* cycle, where an order of that kind exists.
C21_StrictlyTopological ==
    (PlanBuilt /\ Acyclic(BuildGraph(query))) =>
        \A e \in BuildGraph(query).edges :
            LET A == BuildGraph(query).nodes[e[1]]
                B == BuildGraph(query).nodes[e[2]]
            IN  A # B => \A i \in StagesOf(B), j \in StagesOf(A) : i < j


\* a time x satisfies the comparison the Constant predicate p makes
TimeTest(p, x) == ComparatorTest(p.comp, IntV(x), p.value)

\* an end of an interval of the specification's table: a number or absent
End(v) == [some |-> TRUE, v |-> v]
NoEnd == [some |-> FALSE, v |-> 0]

\* the interval the table of the specification gives for `OP t`
TableBound(p) ==
    LET t == p.value.n
    IN  CASE p.comp = "Equal" -> [min |-> End(t - 1), max |-> End(t)]
          [] p.comp = "Greater" -> [min |-> End(t), max |-> NoEnd]
          [] p.comp = "GreaterOrEqual" -> [min |-> End(t - 1), max |-> NoEnd]
          [] p.comp = "Less" -> [min |-> NoEnd, max |-> End(t - 1)]
          [] p.comp = "LessOrEqual" -> [min |-> NoEnd, max |-> End(t)]

\* the Option<usize> end e of a derived bound is the end w of the table
SameEnd(e, w) == IF w.some THEN e # NoneV /\ e = w.v ELSE e = NoneV

\* C22: for every comparator OP and every unsigned t, t = 0 included, the
\* TimeBound derived from Const(OP, Int(t)) is the open-closed interval of
\* the table, a time x lies in it iff x OP t, and the derivation neither
\* underflows nor aborts.
C22_BoundOfConstant ==
    (pf.op = "from_predicate" /\ pf.pred.op = "Constant") =>
        /\ pf.out.ok
        /\ SameEnd(pf.out.min, TableBound(pf.pred).min)
        /\ SameEnd(pf.out.max, TableBound(pf.pred).max)
        /\ \A x \in 0..UsizeMax :
              InBound(SomeBound(pf.out.min, pf.out.max), x) <=> TimeTest(pf.pred, x)

\* the ids that lie in every set of the family SS
Inter(SS) == {x \in UNION SS : \A S \in SS : x \in S}

\* C23: after any sequence of insert_or_merge calls the overlay entry for a
\* name is the intersection of all id sets inserted under that name; a call
\* only shrinks an existing entry, and inserting the same id set twice gives
\* the entry that inserting it once gives.
C23_MergeIsIntersection ==
    [][pf'.op = "insert_or_merge" =>
          /\ DOMAIN cache' = {n \in CacheNames : pf'.hist[n] # {}}
          /\ \A n \in DOMAIN cache' : cache'[n] = Inter(pf'.hist[n])
          /\ \A n \in DOMAIN cache : n \in DOMAIN cache' /\ cache'[n] \subseteq cache[n]
          /\ (pf.op = "insert_or_merge" /\ pf'.name = pf.name /\ pf'.eids = pf.eids)
                => cache' = cache]_vars

\* two different sets were inserted under one name and the entry is the
\* part they share, smaller than either
C23_Witness ==
    /\ pc = "cache"
    /\ pf.op = "insert_or_merge"
    /\ Cardinality(pf.hist[pf.name]) >= 2
    /\ cache[pf.name] # {}
    /\ \A S \in pf.hist[pf.name] : cache[pf.name] # S

\* C24: for every column of len >= 5 datums optimize_columns records
\* time_sample[i] = the time of the datum at index floor(i * len / 5) of
\* the time-sorted sequence, for i in 0..4; a column of fewer than 5 datums
\* gets no sample.
C24_TimeSample ==
    (pc = "index" /\ pf.op = "optimize_columns") =>
        \A c \in DOMAIN db.cols :
            LET data == db.cols[c].data
                len == Len(data)
            IN  IF len >= 5
                THEN db.cols[c].time_index =
                        [i \in 1..5 |-> data[((i - 1) * len) \div 5 + 1].time]
                ELSE db.cols[c].time_index = <<>>

\* C25: after any sequence of add_column, next_id and add_datum calls,
\* next_id on a known table returns the current entity_count, increments it
\* by one and inserts the returned id into ids[table]; the ids next_id
\* returns are pairwise distinct across all tables and strictly increasing;
\* entity_count never decreases and is greater than every id in every
\* ids[T]; next_id on an unknown table fails without changing the Db.
C25_NextId ==
    [][/\ db'.entity_count >= db.entity_count
       /\ \A tb \in DOMAIN db'.ids : \A i \in db'.ids[tb] : i < db'.entity_count
       /\ pf'.op = "next_id" =>
             IF pf'.name.table \in DOMAIN db.ids
             THEN /\ pf'.ok
                  /\ pf'.id = db.entity_count
                  /\ db'.entity_count = db.entity_count + 1
                  /\ db'.ids = [db.ids EXCEPT ![pf'.name.table] = @ \cup {pf'.id}]
                  /\ db'.cols = db.cols
                  /\ \A i \in prev : i < pf'.id
             ELSE ~pf'.ok /\ db' = db]_vars

\* next_id issued a second id, and both tables hold an id it issued
C25_Witness ==
    /\ pf.op = "next_id"
    /\ pf.ok
    /\ pf.id = 1
    /\ prev = {0, 1}
    /\ \A tb \in TablePool : tb \in DOMAIN db.ids /\ db.ids[tb] # {}

\* C28: add_column for a new column of a table that already has columns
\* leaves ids[table] unchanged: the ids next_id issued for that table remain
\* in ids[table] after any later successful add_column on the same table.
C28_AddColumnKeepsIds ==
    [][(/\ pf'.op = "add_column"
        /\ pf'.ok
        /\ \E c \in DOMAIN db.cols : c.table = pf'.name.table)
          => db'.ids[pf'.name.table] = db.ids[pf'.name.table]]_vars

RECURSIVE ContainsOr(_)
\* the predicate holds an Or
ContainsOr(p) ==
    CASE p.op = "Constant" -> FALSE
      [] p.op = "And" -> ContainsOr(p.left) \/ ContainsOr(p.right)
      [] p.op = "Or" -> TRUE

\* the query holds a Where on a `time` column whose predicate holds an Or
HasTimeOr ==
    \E i \in DOMAIN query :
        /\ query[i].kind = "Where"
        /\ query[i].col.column = "time"
        /\ ContainsOr(query[i].pred)

\* C26: building a plan that holds a Where on a `time` column whose
\* predicate holds an Or fails fast during plan optimization: no plan is
\* produced and no stage of that query is ever executed.
C26_TimeOrFailsFast ==
    HasTimeOr =>
        /\ pc \in {"new", "panicked"}
        /\ plan.state \in {"none", "panicked"}
        /\ plan.stages = <<>>
        /\ ~ExecCalled
        /\ result = <<>>

\* Plan::new panicked on a query whose time predicate holds an Or under an And
C26_Witness ==
    /\ HasTimeOr
    /\ Len(query) = 3
    /\ pc = "panicked"
    /\ plan.state = "panicked"
    /\ outcome = "none"

\* C27: every plan node produced from the query lines is placed in exactly
\* one stage by build_stages: no node appears in two different stages, for
\* every query and every order in which the DFS walks visit it.  Stated on
\* the queries whose graph has no cycle, where every node is on a walk.
C27_OneStagePerNode ==
    (PlanBuilt /\ Acyclic(BuildGraph(query))) =>
        \A j \in DOMAIN BuildGraph(query).nodes :
            Cardinality(StagesOf(BuildGraph(query).nodes[j])) = 1

\* C29: for every db and every plan exec eventually returns (Ok or Err):
\* in each stage the driver receives exactly one message per node of the
\* stage and never blocks forever on the result channel, also when a task
\* of the stage fails before sending.  As a property of the states a run
\* reaches: exec is never left blocked in recv with every task of the stage
\* ended and the channel empty, it never unwinds instead of returning, and
\* no node's message is received twice.
C29_ExecReturns ==
    plan.state = "validated" =>
        /\ ~Hung
        /\ ~(pc = "panicked" /\ outcome = "panic")
        /\ \A i, j \in DOMAIN results : i # j => results[i].from # results[j].from
        /\ pc = "merge" => Len(results) + Cardinality({m \in merged : m.from[1] = stageIdx})
                              = Cardinality(plan.stages[stageIdx])

\* the times of the usize range that lie in the derived bound b
TimesIn(b) == {x \in 0..UsizeMax : InBound(SomeBound(b.min, b.max), x)}

\* p is And(l, r) of two comparisons with constants above 0, whose own
\* bounds are derived without a subtraction below 0
AndOfPositive(p) ==
    /\ p.op = "And"
    /\ p.left.op = "Constant" /\ p.left.value.n > 0
    /\ p.right.op = "Constant" /\ p.right.value.n > 0

\* C30: the TimeBound derived from And(p, q) over a time column is the
\* intersection of the bounds of p and q: a time x lies in the combined
\* bound iff it lies in both, independent of the order of p and q (e.g.
\* `time > 5` AND `time > 10` gives min = 10).
C30_AndIsIntersection ==
    (pf.op = "from_predicate" /\ AndOfPositive(pf.pred) /\ pf.out.ok) =>
        /\ \A l \in FromPredicate(pf.pred.left), r \in FromPredicate(pf.pred.right) :
              TimesIn(pf.out) = TimesIn(l) \cap TimesIn(r)
        /\ \A o \in FromPredicate(And(pf.pred.right, pf.pred.left)) :
              TimesIn(o) = TimesIn(pf.out)

====
